---------------------------- MODULE Spec2Model ----------------------------
(***************************************************************************)
(* Model of package metadata (iskorotkov/metadata): Marshal and Unmarshal  *)
(* move the tagged fields of a struct to and from the Labels and           *)
(* Annotations maps of a v1.ObjectMeta.                                    *)
(*                                                                         *)
(* Text is a sequence of one-character strings, so that strings.Split,     *)
(* strings.Join and the strconv parsers work on characters.  Map keys and  *)
(* tag names are TLA+ strings, concatenated as fmt.Sprintf("%s/%s") does.  *)
(* An integer value is a sign and a decimal magnitude (a sequence of       *)
(* digits 0..9 without leading zeros), so that 64-bit values and the       *)
(* parsers' range checks are exact.                                        *)
(*                                                                         *)
(* The model covers the kinds string, bool, the signed and unsigned        *)
(* integers, the slices of string, bool, int, uint, int64 and uint64, and  *)
(* two kinds parseValue/handleSlice do not support (a nested struct and a  *)
(* slice of int8).  The float, complex and time.Duration grammars are not  *)
(* part of the model.                                                      *)
(***************************************************************************)
EXTENDS Integers, Sequences, FiniteSets, TLC

VARIABLES
    schema,       \* the struct type of the record: its fields in declaration order
    rec,          \* the record's field values
    labels,       \* metadata.Labels
    annotations,  \* metadata.Annotations
    last,         \* the last call: operation, data argument, prefix, returned error
    pre,          \* the record and the maps as they were when the last call began
    src           \* the record last marshalled into an empty container

vars == <<schema, rec, labels, annotations, last, pre, src>>

----------------------------------------------------------------------------
(* Bounds of the model *)

\* Longest slice among the records a behaviour starts from.
MaxSliceLen == 2
\* Longest of the texts over TextAlphabet offered to the integer parsers.
MaxTextLen == 2

----------------------------------------------------------------------------
(* Errors, src/metadata.go:13-17 *)

NoError == "nil"
ErrUnsupportedType == "ErrUnsupportedType"
ErrConversion == "ErrConversion"
ErrNotStructPointer == "ErrNotStructPointer"
ErrValueMissing == "ErrValueMissing"

----------------------------------------------------------------------------
(* Decimal magnitudes *)

DigitChars == <<"0", "1", "2", "3", "4", "5", "6", "7", "8", "9">>

IsDigit(c) == \E i \in 1..10 : DigitChars[i] = c

DigitVal(c) == (CHOOSE i \in 1..10 : DigitChars[i] = c) - 1

\* A magnitude without its leading zeros; zero is <<0>>.
RECURSIVE StripZeros(_)
StripZeros(m) ==
    IF Len(m) > 1 /\ m[1] = 0 THEN StripZeros(Tail(m)) ELSE m

\* m1 > m2, for magnitudes without leading zeros.
RECURSIVE MagGt(_, _)
MagGt(m1, m2) ==
    IF Len(m1) # Len(m2) THEN Len(m1) > Len(m2)
    ELSE IF m1 = <<>> THEN FALSE
    ELSE IF m1[1] # m2[1] THEN m1[1] > m2[1]
    ELSE MagGt(Tail(m1), Tail(m2))

\* 1 << n, for the n strconv uses with the bit sizes 8, 16, 32 and 64.
Shl1(n) ==
    CASE n = 7 -> <<1,2,8>>
      [] n = 8 -> <<2,5,6>>
      [] n = 15 -> <<3,2,7,6,8>>
      [] n = 16 -> <<6,5,5,3,6>>
      [] n = 31 -> <<2,1,4,7,4,8,3,6,4,8>>
      [] n = 32 -> <<4,2,9,4,9,6,7,2,9,6>>
      [] n = 63 -> <<9,2,2,3,3,7,2,0,3,6,8,5,4,7,7,5,8,0,8>>
      [] n = 64 -> <<1,8,4,4,6,7,4,4,0,7,3,7,0,9,5,5,1,6,1,6>>

\* m - 1, for m > 0.
RECURSIVE DecFrom(_, _)
DecFrom(m, i) ==
    IF m[i] > 0 THEN [m EXCEPT ![i] = m[i] - 1]
    ELSE DecFrom([m EXCEPT ![i] = 9], i - 1)

MagPred(m) == StripZeros(DecFrom(m, Len(m)))

IntVal(neg, mag) == [neg |-> neg, mag |-> mag]

----------------------------------------------------------------------------
(* strconv, as called by parseValue and the parse*s helpers *)

\* strconv.ParseUint(s, 10, bitSize): no sign, digits only, at most
\* 1<<bitSize - 1.  A range error returns the largest value with the error.
ParseUint(s, bitSize) ==
    LET maxVal == MagPred(Shl1(bitSize))
    IN  IF s = <<>> \/ \E i \in 1..Len(s) : ~IsDigit(s[i])
        THEN [err |-> "syntax", mag |-> <<0>>]
        ELSE LET n == StripZeros([i \in 1..Len(s) |-> DigitVal(s[i])])
             IN  IF MagGt(n, maxVal)
                 THEN [err |-> "range", mag |-> maxVal]
                 ELSE [err |-> NoError, mag |-> n]

\* strconv.ParseInt(s, 10, bitSize): an optional sign, then ParseUint; the
\* magnitude is checked against cutoff = 1 << (bitSize-1).
ParseInt(s, bitSize) ==
    IF s = <<>> THEN [err |-> "syntax", val |-> IntVal(FALSE, <<0>>)]
    ELSE
    LET signed == s[1] \in {"+", "-"}
        neg    == s[1] = "-"
        un     == ParseUint(IF signed THEN Tail(s) ELSE s, bitSize)
        cutoff == Shl1(bitSize - 1)
    IN  IF un.err = "syntax"
        THEN [err |-> "syntax", val |-> IntVal(FALSE, <<0>>)]
        ELSE IF ~neg /\ ~MagGt(cutoff, un.mag)
        THEN [err |-> "range", val |-> IntVal(FALSE, MagPred(cutoff))]
        ELSE IF neg /\ MagGt(un.mag, cutoff)
        THEN [err |-> "range", val |-> IntVal(TRUE, cutoff)]
        ELSE [err |-> NoError, val |-> IntVal(neg /\ un.mag # <<0>>, un.mag)]

\* strconv.ParseBool
ParseBool(s) ==
    IF s \in {<<"1">>, <<"t">>, <<"T">>, <<"t","r","u","e">>,
              <<"T","R","U","E">>, <<"T","r","u","e">>}
    THEN [err |-> NoError, val |-> TRUE]
    ELSE IF s \in {<<"0">>, <<"f">>, <<"F">>, <<"f","a","l","s","e">>,
                   <<"F","A","L","S","E">>, <<"F","a","l","s","e">>}
    THEN [err |-> NoError, val |-> FALSE]
    ELSE [err |-> "syntax", val |-> FALSE]

----------------------------------------------------------------------------
(* strings.Split and strings.Join with a one-character separator *)

\* strings.Split(s, sep): the texts between the separators; always at least
\* one text, and <<"">> for the empty text.
RECURSIVE SplitFrom(_, _, _, _)
SplitFrom(s, sep, i, cur) ==
    IF i > Len(s) THEN <<cur>>
    ELSE IF s[i] = sep THEN <<cur>> \o SplitFrom(s, sep, i + 1, <<>>)
    ELSE SplitFrom(s, sep, i + 1, Append(cur, s[i]))

Split(s, sep) == SplitFrom(s, sep, 1, <<>>)

\* strings.Join(values, sep): "" for no values.
RECURSIVE Join(_, _)
Join(values, sep) ==
    IF values = <<>> THEN <<>>
    ELSE IF Len(values) = 1 THEN values[1]
    ELSE values[1] \o <<sep>> \o Join(Tail(values), sep)

----------------------------------------------------------------------------
(* Types and values *)

\* reflect.TypeOf([]T(nil)), src/metadata.go:19-27 (the slice types of the
\* kinds the model covers).
sliceOfStrings == "[]string"
sliceOfBools == "[]bool"
sliceOfInts == "[]int"
sliceOfUints == "[]uint"
sliceOfInt64s == "[]int64"
sliceOfUint64s == "[]uint64"

SignedTypes == {"int8", "int16", "int", "int32", "int64"}
UnsignedTypes == {"uint8", "uint16", "uint", "uint32", "uint64"}
SliceTypes == {sliceOfStrings, sliceOfBools, sliceOfInts, sliceOfUints,
               sliceOfInt64s, sliceOfUint64s, "[]int8"}

\* reflect.Type.Kind(): "Inner" is a nested struct type, struct { N int }.
Kind(t) ==
    IF t \in SliceTypes THEN "slice"
    ELSE IF t = "Inner" THEN "struct"
    ELSE t

\* reflect.Type.Elem() of a slice type.
Elem(t) ==
    CASE t = sliceOfStrings -> "string"
      [] t = sliceOfBools -> "bool"
      [] t = sliceOfInts -> "int"
      [] t = sliceOfUints -> "uint"
      [] t = sliceOfInt64s -> "int64"
      [] t = sliceOfUint64s -> "uint64"
      [] t = "[]int8" -> "int8"

\* A slice value: nil, or its elements.
NilSlice == [isnil |-> TRUE, elems |-> <<>>]
SliceOf(elems) == [isnil |-> FALSE, elems |-> elems]

\* The decimal text of an integer.
FormatInt(v) ==
    (IF v.neg THEN <<"-">> ELSE <<>>)
        \o [i \in 1..Len(v.mag) |-> DigitChars[v.mag[i] + 1]]

\* fmt.Sprint of a value of type t that is not a slice.
Sprint(t, v) ==
    CASE t = "string" -> v
      [] t = "bool" -> IF v THEN <<"t","r","u","e">> ELSE <<"f","a","l","s","e">>
      [] t \in SignedTypes \cup UnsignedTypes -> FormatInt(v)
      [] t = "Inner" -> <<"{">> \o FormatInt(v.N) \o <<"}">>

----------------------------------------------------------------------------
(* parseValue and handleSlice, src/metadata.go:141-415 *)

\* The loop of the parse*s helpers: every text of data converted by parse
\* (which gives [err, val]), or ErrConversion if one of them fails.
ParseAll(data, parse(_)) ==
    IF \E i \in 1..Len(data) : parse(data[i]).err # NoError
    THEN [err |-> ErrConversion, val |-> NilSlice]
    ELSE [err |-> NoError,
          val |-> [isnil |-> FALSE,
                   elems |-> [i \in 1..Len(data) |-> parse(data[i]).val]]]

parseBools(data) == ParseAll(data, ParseBool)

parseInts(data) == LET conv(v) == ParseInt(v, 32) IN ParseAll(data, conv)

parseUints(data) ==
    LET conv(v) == LET u == ParseUint(v, 32)
                   IN  [err |-> u.err, val |-> IntVal(FALSE, u.mag)]
    IN  ParseAll(data, conv)

parseInt64s(data) == LET conv(v) == ParseInt(v, 64) IN ParseAll(data, conv)

\* The result starts as a nil slice and is appended to.
parseUint64s(data) ==
    LET conv(v) == LET u == ParseUint(v, 64)
                   IN  [err |-> u.err, val |-> IntVal(FALSE, u.mag)]
    IN  IF Len(data) = 0 THEN [err |-> NoError, val |-> NilSlice]
        ELSE ParseAll(data, conv)

\* handleSlice(field, value, separator): [err, val], val the field's new value
\* (old when the field is not set).
handleSlice(t, old, value, separator) ==
    LET sep == IF separator = "" THEN "," ELSE separator
        splitData == Split(value, sep)
        set(r) == IF r.err # NoError
                  THEN [err |-> ErrConversion, val |-> old]
                  ELSE [err |-> NoError, val |-> r.val]
    IN  CASE t = sliceOfStrings -> [err |-> NoError, val |-> SliceOf(splitData)]
          [] t = sliceOfBools -> set(parseBools(splitData))
          [] t = sliceOfInts -> set(parseInts(splitData))
          [] t = sliceOfUints -> set(parseUints(splitData))
          [] t = sliceOfInt64s -> set(parseInt64s(splitData))
          [] t = sliceOfUint64s -> set(parseUint64s(splitData))
          [] OTHER -> [err |-> ErrUnsupportedType, val |-> old]

\* BitSize with int and uint at the platform's 64 bits.
BitSizeNative(kind) ==
    CASE kind \in {"int8", "uint8"} -> 8
      [] kind \in {"int16", "uint16"} -> 16
      [] kind \in {"int32", "uint32"} -> 32
      [] kind \in {"int", "uint", "int64", "uint64"} -> 64

\* The bitSize parseValue passes to strconv for an integer kind.
BitSize(kind) ==
    CASE kind \in {"int8", "uint8"} -> 8
      [] kind \in {"int16", "uint16"} -> 16
      [] kind \in {"int", "int32", "uint", "uint32"} -> 32
      [] kind \in {"int64", "uint64"} -> 64

\* The cases of parseValue's switch other than reflect.Slice: [err, val],
\* val the field's new value (old when the field is not set).
parseScalar(kind, old, value) ==
    CASE kind = "string" -> [err |-> NoError, val |-> value]
      [] kind = "bool" ->
            LET b == ParseBool(value)
            IN  IF b.err # NoError THEN [err |-> ErrConversion, val |-> old]
                ELSE [err |-> NoError, val |-> b.val]
      [] kind \in SignedTypes ->
            LET i == ParseInt(value, BitSize(kind))
            IN  IF i.err # NoError THEN [err |-> ErrConversion, val |-> old]
                ELSE [err |-> NoError, val |-> i.val]
      [] kind \in UnsignedTypes ->
            LET i == ParseUint(value, BitSize(kind))
            IN  IF i.err # NoError THEN [err |-> ErrConversion, val |-> old]
                ELSE [err |-> NoError, val |-> IntVal(FALSE, i.mag)]
      [] OTHER -> [err |-> ErrUnsupportedType, val |-> old]

\* parseValue emptying a slice field before it converts the elements.
parseValueEager(t, old, value) ==
    IF Kind(t) = "slice"
    THEN LET r == handleSlice(t, SliceOf(<<>>), value, ",")
         IN  IF r.err # NoError THEN [err |-> ErrConversion, val |-> r.val]
             ELSE r
    ELSE parseScalar(Kind(t), old, value)

\* parseValue(typeField, valueField, value): [err, val], val the field's new
\* value (old when the field is not set).  Whatever error handleSlice gives
\* is returned as ErrConversion.
parseValue(t, old, value) ==
    IF Kind(t) = "slice"
    THEN LET r == handleSlice(t, old, value, ",")
         IN  IF r.err # NoError THEN [err |-> ErrConversion, val |-> r.val]
             ELSE r
    ELSE parseScalar(Kind(t), old, value)

----------------------------------------------------------------------------
(* Struct fields, tags and maps *)

\* A struct tag entry: present with a name, or absent.
Tag(name) == [ok |-> TRUE, name |-> name]
NoTag == [ok |-> FALSE, name |-> ""]

Field(name, type, annotation, label) ==
    [name |-> name, type |-> type, annotation |-> annotation, label |-> label]

\* A map[string]string: nil, or its entries.
NilMap == [isnil |-> TRUE, m |-> <<>>]
MapOf(m) == [isnil |-> FALSE, m |-> m]

\* value, ok := dict[key]
Has(dict, key) == ~dict.isnil /\ key \in DOMAIN dict.m

\* Store, keeping the value a key already has.
StoreIfAbsent(dict, key, value) ==
    IF key \in DOMAIN dict.m THEN dict ELSE MapOf((key :> value) @@ dict.m)

\* dict[key] = value, on a map that is not nil
Store(dict, key, value) == MapOf((key :> value) @@ dict.m)

\* Key with its arguments exchanged.
KeySwapped(prefix, tag) == tag \o "/" \o prefix

\* fmt.Sprintf("%s/%s", prefix, tag)
Key(prefix, tag) == prefix \o "/" \o tag

\* Descriptor looking the label tag up first.
DescriptorLabelFirst(f) ==
    IF f.label.ok THEN [ok |-> TRUE, dict |-> "labels", tag |-> f.label.name]
    ELSE IF f.annotation.ok
    THEN [ok |-> TRUE, dict |-> "annotations", tag |-> f.annotation.name]
    ELSE [ok |-> FALSE, dict |-> "", tag |-> ""]

\* The tag lookup of both functions: the annotation tag if the field has one,
\* else the label tag; which says whether the field is tagged at all, which
\* map it uses and under which tag name.
Descriptor(f) ==
    IF f.annotation.ok THEN [ok |-> TRUE, dict |-> "annotations", tag |-> f.annotation.name]
    ELSE IF f.label.ok THEN [ok |-> TRUE, dict |-> "labels", tag |-> f.label.name]
    ELSE [ok |-> FALSE, dict |-> "", tag |-> ""]

----------------------------------------------------------------------------
(* Unmarshal and Marshal, src/metadata.go:41-139 *)

\* What reflect sees of the data argument: a pointer to the struct, the
\* struct passed by value, or a pointer to something that is no struct.
ArgKinds == {"ptr-struct", "struct", "ptr-int"}

\* IsStructPointer checking only that a struct is behind the argument.
IsStructOrPointer(how) == how \in {"ptr-struct", "struct"}

IsStructPointer(how) == how = "ptr-struct"

\* The loop of Unmarshal from field i on: [err, rec].  parseValue works on
\* the field in place: the field holds what parseValue left in it, whether
\* it failed or not.
RECURSIVE UnmarshalFrom(_, _, _, _, _)
UnmarshalFrom(metadata, fields, values, prefix, i) ==
    IF i > Len(fields) THEN [err |-> NoError, rec |-> values]
    ELSE
    LET d == Descriptor(fields[i])
        dict == IF d.dict = "annotations" THEN metadata.annotations ELSE metadata.labels
        key == Key(prefix, d.tag)
    IN  IF ~d.ok THEN UnmarshalFrom(metadata, fields, values, prefix, i + 1)
        ELSE IF ~Has(dict, key) THEN [err |-> ErrValueMissing, rec |-> values]
        ELSE LET r == parseValue(fields[i].type, values[i], dict.m[key])
                 set == [values EXCEPT ![i] = r.val]
             IN  IF r.err # NoError THEN [err |-> r.err, rec |-> set]
                 ELSE UnmarshalFrom(metadata, fields, set, prefix, i + 1)

\* Unmarshal ending without an error at a field whose key is missing.
UnmarshalIgnoreMissing(metadata, how, fields, values, prefix) ==
    IF how # "ptr-struct" THEN [err |-> ErrNotStructPointer, rec |-> values]
    ELSE LET r == UnmarshalFrom(metadata, fields, values, prefix, 1)
         IN  IF r.err = ErrValueMissing THEN [err |-> NoError, rec |-> r.rec] ELSE r

\* Unmarshal(metadata, data, prefix): the error returned and the record after.
Unmarshal(metadata, how, fields, values, prefix) ==
    IF ~IsStructPointer(how) THEN [err |-> ErrNotStructPointer, rec |-> values]
    ELSE UnmarshalFrom(metadata, fields, values, prefix, 1)

\* The text Marshal stores for a field.
FieldText(t, v) ==
    IF Kind(t) = "slice"
    THEN Join([i \in 1..Len(v.elems) |-> Sprint(Elem(t), v.elems[i])], ",")
    ELSE Sprint(t, v)

\* The loop of Marshal from field i on: the two maps after.
RECURSIVE MarshalFrom(_, _, _, _, _)
MarshalFrom(metadata, fields, values, prefix, i) ==
    IF i > Len(fields) THEN metadata
    ELSE
    LET d == Descriptor(fields[i])
        key == Key(prefix, d.tag)
        text == FieldText(fields[i].type, values[i])
    IN  IF ~d.ok THEN MarshalFrom(metadata, fields, values, prefix, i + 1)
        ELSE IF d.dict = "annotations"
        THEN MarshalFrom([metadata EXCEPT !.annotations = Store(@, key, text)],
                         fields, values, prefix, i + 1)
        ELSE MarshalFrom([metadata EXCEPT !.labels = Store(@, key, text)],
                         fields, values, prefix, i + 1)

\* if metadata.X == nil { metadata.X = make(map[string]string) }
MakeIfNil(dict) == IF dict.isnil THEN MapOf(<<>>) ELSE dict

\* Marshal(metadata, data, prefix): the error returned and the maps after.
Marshal(metadata, how, fields, values, prefix) ==
    IF ~IsStructPointer(how)
    THEN [err |-> ErrNotStructPointer, metadata |-> metadata]
    ELSE [err |-> NoError,
          metadata |-> MarshalFrom([labels |-> MakeIfNil(metadata.labels),
                                    annotations |-> MakeIfNil(metadata.annotations)],
                                   fields, values, prefix, 1)]

----------------------------------------------------------------------------
(* The struct types and the records a behaviour starts from *)

StructTypes == {"Data", "Mixed", "Nested", "Lists", "Twins"}

IntTypes == SignedTypes \cup UnsignedTypes

\* The fields of a struct type, in declaration order.
\*   Data:   the struct of the package's tests and README.
\*   Mixed:  a field with both tags, a field with none, a field with a label.
\*   Nested: a nested struct between two supported fields.
\*   Lists:  slices, the second of an element type handleSlice does not list.
\*   Twins:  two fields with the same annotation tag.
\*   an integer type T: struct { V T `annotation:"v"` }.
Fields(T) ==
    CASE T \in IntTypes -> <<Field("V", T, Tag("v"), NoTag)>>
      [] T = "Data" ->
            <<Field("ID", "int", Tag("id"), NoTag),
              Field("Name", "string", Tag("name"), NoTag),
              Field("Age", "uint", NoTag, Tag("age")),
              Field("Skills", "[]string", NoTag, Tag("skills"))>>
      [] T = "Mixed" ->
            <<Field("Both", "string", Tag("x"), Tag("y")),
              Field("Skip", "int16", NoTag, NoTag),
              Field("Us", "[]uint64", NoTag, Tag("us"))>>
      [] T = "Nested" ->
            <<Field("A", "int8", Tag("a"), NoTag),
              Field("In", "Inner", NoTag, Tag("in")),
              Field("Bs", "[]bool", NoTag, Tag("bs"))>>
      [] T = "Lists" ->
            <<Field("Ns", "[]int", Tag("ns"), NoTag),
              Field("Raw", "[]int8", NoTag, Tag("raw"))>>
      [] T = "Twins" ->
            <<Field("P", "bool", Tag("k"), NoTag),
              Field("Q", "bool", Tag("k"), NoTag)>>

Prefixes == {"p", "q"}

Num(mag) == IntVal(FALSE, mag)

\* The element values of the slices a behaviour starts from.
ElemValues(t) ==
    CASE t = "string" -> {<<"a">>, <<",">>}
      [] t = "bool" -> {TRUE}
      [] t = "int" -> {IntVal(TRUE, <<2>>)}
      [] t = "uint64" -> {Num(<<1,8,4,4,6,7,4,4,0,7,3,7,0,9,5,5,1,6,1,5>>)}
      [] t = "int8" -> {Num(<<7>>)}

\* The sequences of at most n elements of S.
SeqsUpTo(S, n) == UNION {[1..k -> S] : k \in 0..n}

\* The field values a behaviour starts from.
Values(t) ==
    CASE t = "string" -> {<<"a", ",", "b">>}
      [] t = "bool" -> {TRUE, FALSE}
      [] t = "int8" -> {IntVal(TRUE, <<1,2,8>>)}
      [] t = "int16" -> {Num(<<3,0,0>>)}
      [] t = "int" -> {Num(<<1>>), Num(<<2,1,4,7,4,8,3,6,4,8>>)}
      [] t = "uint" -> {Num(<<3,0>>)}
      [] t = "Inner" -> {[N |-> Num(<<5>>)]}
      [] t \in SliceTypes ->
            {NilSlice} \cup {SliceOf(e) : e \in SeqsUpTo(ElemValues(Elem(t)), MaxSliceLen)}

\* The zero value of a type.
Zero(t) ==
    CASE t = "string" -> <<>>
      [] t = "bool" -> FALSE
      [] t \in SignedTypes \cup UnsignedTypes -> Num(<<0>>)
      [] t = "Inner" -> [N |-> Num(<<0>>)]
      [] t \in SliceTypes -> NilSlice

\* The zero record of a struct type: T{}.
ZeroRecord(fields) == [i \in 1..Len(fields) |-> Zero(fields[i].type)]

\* The records of a struct type a behaviour starts from: a value of its
\* type for every field from field i on.
RECURSIVE RecordsFrom(_, _)
RecordsFrom(fields, i) ==
    IF i > Len(fields) THEN {<<>>}
    ELSE {<<v>> \o r : v \in Values(fields[i].type), r \in RecordsFrom(fields, i + 1)}

Records(fields) == RecordsFrom(fields, 1)

----------------------------------------------------------------------------
(* The caller and the calls *)

\* The tag names of a struct type.
TagNames(fields) ==
    {fields[i].annotation.name : i \in {j \in 1..Len(fields) : fields[j].annotation.ok}}
        \cup {fields[i].label.name : i \in {j \in 1..Len(fields) : fields[j].label.ok}}

\* An entry of some other tool, and a text that is no number.
Foreign == MapOf("other/k" :> <<"v">>)
BadText == <<"1", ",", "x">>

\* The v1.ObjectMeta a behaviour starts from: each map nil or with an entry
\* of some other tool, or one of them with a text of the caller's under a
\* key of the record.
InitMetas(fields) ==
    [labels : {NilMap, Foreign}, annotations : {NilMap, Foreign}]
        \cup {[labels |-> MapOf(Key("p", t) :> BadText), annotations |-> NilMap] :
                t \in TagNames(fields)}
        \cup {[labels |-> NilMap, annotations |-> MapOf(Key("p", t) :> BadText)] :
                t \in TagNames(fields)}

Call(op, how, prefix, err) == [op |-> op, how |-> how, prefix |-> prefix, err |-> err]

Snapshot == [rec |-> rec, labels |-> labels, annotations |-> annotations]

NoSrc == [valid |-> FALSE, rec |-> <<>>, prefix |-> ""]

IsEmpty(dict) == dict.isnil \/ DOMAIN dict.m = {}

Init ==
    /\ schema \in StructTypes
    /\ rec \in Records(Fields(schema))
    /\ \E meta \in InitMetas(Fields(schema)) :
            /\ labels = meta.labels
            /\ annotations = meta.annotations
    /\ last = Call("new", "", "", NoError)
    /\ pre = Snapshot
    /\ src = NoSrc

\* err := Marshal(&metadata, data, prefix)
MarshalCall(how, prefix) ==
    LET r == Marshal([labels |-> labels, annotations |-> annotations],
                     how, Fields(schema), rec, prefix)
    IN  /\ labels' = r.metadata.labels
        /\ annotations' = r.metadata.annotations
        /\ last' = Call("Marshal", how, prefix, r.err)
        /\ pre' = Snapshot
        /\ src' = IF r.err = NoError /\ IsEmpty(labels) /\ IsEmpty(annotations)
                  THEN [valid |-> TRUE, rec |-> rec, prefix |-> prefix]
                  ELSE IF r.err = NoError THEN NoSrc ELSE src
        /\ UNCHANGED <<schema, rec>>

\* err := Unmarshal(metadata, data, prefix)
UnmarshalCall(how, prefix) ==
    LET r == Unmarshal([labels |-> labels, annotations |-> annotations],
                       how, Fields(schema), rec, prefix)
    IN  /\ rec' = r.rec
        /\ last' = Call("Unmarshal", how, prefix, r.err)
        /\ pre' = Snapshot
        /\ UNCHANGED <<schema, labels, annotations, src>>

\* The caller takes a fresh record: d2 := T{}
Fresh ==
    /\ rec # ZeroRecord(Fields(schema))
    /\ rec' = ZeroRecord(Fields(schema))
    /\ last' = Call("Fresh", "", "", NoError)
    /\ pre' = Snapshot
    /\ UNCHANGED <<schema, labels, annotations, src>>

Next ==
    \/ \E how \in ArgKinds, prefix \in Prefixes : MarshalCall(how, prefix)
    \/ \E how \in ArgKinds, prefix \in Prefixes : UnmarshalCall(how, prefix)
    \/ Fresh

Spec == Init /\ [][Next]_vars

----------------------------------------------------------------------------
(* Unmarshal of one integer field from a given text *)

TextAlphabet == {"0", "1", "9", "+", "-", "x"}

\* The decimal text of a magnitude.
Chars(mag) == [i \in 1..Len(mag) |-> DigitChars[mag[i] + 1]]

\* The magnitudes at the edges of the integer types' ranges.
EdgeMags ==
    UNION {{Shl1(n), MagPred(Shl1(n))} : n \in {7, 8, 15, 16, 31, 32, 63, 64}}

\* The texts offered to an integer field: the short texts over TextAlphabet,
\* and the edges of the ranges, unsigned and with either sign.
IntTexts ==
    SeqsUpTo(TextAlphabet, MaxTextLen)
        \cup {Chars(m) : m \in EdgeMags}
        \cup {<<"-">> \o Chars(m) : m \in EdgeMags}
        \cup {<<"+">> \o Chars(m) : m \in EdgeMags}

InitInt ==
    /\ schema \in IntTypes
    /\ rec = <<Num(<<7>>)>>
    /\ labels = NilMap
    /\ annotations \in {MapOf(Key("p", "v") :> text) : text \in IntTexts}
    /\ last = Call("new", "", "", NoError)
    /\ pre = Snapshot
    /\ src = NoSrc

NextInt == \E how \in ArgKinds, prefix \in Prefixes : UnmarshalCall(how, prefix)

SpecInt == InitInt /\ [][NextInt]_vars

----------------------------------------------------------------------------
(* What the last call was given, for the properties below *)

F == Fields(schema)

\* The last call was op, with a pointer to the record.
Did(op) == last.op = op /\ last.how = "ptr-struct"

Tagged(i) == F[i].annotation.ok \/ F[i].label.ok

\* The dictionary a field's tags select and the key under the call's prefix.
UsesAnnotations(i) == F[i].annotation.ok
TagName(i) == IF F[i].annotation.ok THEN F[i].annotation.name ELSE F[i].label.name
KeyOf(i) == last.prefix \o "/" \o TagName(i)
PreDict(i) == IF UsesAnnotations(i) THEN pre.annotations ELSE pre.labels
PostDict(i) == IF UsesAnnotations(i) THEN annotations ELSE labels

Present(dict, k) == ~dict.isnil /\ k \in DOMAIN dict.m
KeysOf(dict) == IF dict.isnil THEN {} ELSE DOMAIN dict.m
SameEntry(d0, d1, k) ==
    /\ Present(d0, k) <=> Present(d1, k)
    /\ Present(d0, k) => d0.m[k] = d1.m[k]

\* What Unmarshal finds at field i: its key missing, or the conversion of
\* the text under its key.
Missing(i) == Tagged(i) /\ ~Present(PreDict(i), KeyOf(i))
Decoded(i) == parseValue(F[i].type, pre.rec[i], PreDict(i).m[KeyOf(i)])
Succeeds(i) == ~Tagged(i) \/ (~Missing(i) /\ Decoded(i).err = NoError)
Reaches(i) == \A j \in 1..(i - 1) : Succeeds(j)

\* The kinds the package documents as supported, among those of the model.
SupportedElems == {"string", "bool", "int", "uint", "int64", "uint64"}
SupportedTypes ==
    {"string", "bool"} \cup IntTypes
        \cup {t \in SliceTypes : Elem(t) \in SupportedElems}

----------------------------------------------------------------------------
(* Properties *)

\* C1: Marshal of a record of supported kinds into an empty container, then
\* Unmarshal under the same prefix into a fresh record, returns no error and
\* leaves the fresh record equal to the original.
C1_RoundTrip ==
    (/\ Did("Unmarshal")
     /\ schema = "Data"
     /\ src.valid
     /\ src.prefix = last.prefix
     /\ pre.rec = ZeroRecord(F))
        => last.err = NoError /\ rec = src.rec

\* The text Marshal is to have stored for field i is in the selected map.
Stored(i) ==
    /\ Present(PostDict(i), KeyOf(i))
    /\ PostDict(i).m[KeyOf(i)] = FieldText(F[i].type, pre.rec[i])

\* A later field selects the same map and tag name as field i.
Shadowed(i) ==
    \E j \in (i + 1)..Len(F) :
        Tagged(j) /\ UsesAnnotations(j) = UsesAnnotations(i) /\ TagName(j) = TagName(i)

\* C2 as claimed: after a successful Marshal both maps are non-nil and, for
\* every tagged field, the selected map holds the field's text under
\* prefix/tagName.
C2_EveryFieldStored ==
    (Did("Marshal") /\ last.err = NoError)
        => /\ ~labels.isnil /\ ~annotations.isnil
           /\ \A i \in 1..Len(F) : Tagged(i) => Stored(i)

\* C2 as amended: after a successful Marshal both maps are non-nil and, for
\* every tagged field that no later field shares its map and tag name with,
\* the selected map holds the field's text under prefix/tagName, whatever was
\* stored there before.
C2_LastFieldStored ==
    (Did("Marshal") /\ last.err = NoError)
        => /\ ~labels.isnil /\ ~annotations.isnil
           /\ \A i \in 1..Len(F) : (Tagged(i) /\ ~Shadowed(i)) => Stored(i)

C2_Witness ==
    /\ Did("Marshal") /\ last.err = NoError /\ schema = "Data" /\ last.prefix = "p"
    /\ pre.labels.isnil /\ ~labels.isnil
    /\ Present(pre.annotations, "p/id") /\ pre.annotations.m["p/id"] = BadText
    /\ annotations.m["p/id"] = <<"1">>

\* C3: for a field with both an annotation tag x and a label tag y, Marshal
\* writes annotations[prefix/x] and leaves labels[prefix/y] as it was, and
\* Unmarshal takes the field from annotations[prefix/x] alone: it fails with
\* ErrValueMissing when that key is absent, whatever labels holds.
C3_AnnotationWins ==
    \A i \in 1..Len(F) :
        (F[i].annotation.ok /\ F[i].label.ok) =>
            LET kx == last.prefix \o "/" \o F[i].annotation.name
                ky == last.prefix \o "/" \o F[i].label.name
                labelFree == \A j \in 1..Len(F) :
                                ~(Tagged(j) /\ ~UsesAnnotations(j) /\ TagName(j) = F[i].label.name)
                first == \A j \in 1..(i - 1) : ~Tagged(j)
            IN  /\ (Did("Marshal") /\ last.err = NoError /\ ~Shadowed(i)) =>
                        /\ Present(annotations, kx)
                        /\ annotations.m[kx] = FieldText(F[i].type, pre.rec[i])
                        /\ labelFree => SameEntry(pre.labels, labels, ky)
                /\ (Did("Unmarshal") /\ first) =>
                        IF Present(pre.annotations, kx)
                        THEN F[i].type = "string" => rec[i] = pre.annotations.m[kx]
                        ELSE last.err = ErrValueMissing /\ rec[i] = pre.rec[i]

C3_Witness ==
    /\ Did("Unmarshal") /\ schema = "Mixed" /\ last.prefix = "p"
    /\ Present(pre.labels, "p/y") /\ ~Present(pre.annotations, "p/x")
    /\ last.err = ErrValueMissing

\* C4: when Unmarshal reaches a tagged field whose key is absent from the
\* selected map (a nil map included), it returns ErrValueMissing and that
\* field and every field after it keep their values.
C4_MissingKey ==
    Did("Unmarshal") =>
        \A i \in 1..Len(F) :
            (Missing(i) /\ Reaches(i)) =>
                /\ last.err = ErrValueMissing
                /\ \A k \in i..Len(F) : rec[k] = pre.rec[k]

C4_Witness ==
    /\ Did("Unmarshal") /\ schema = "Mixed"
    /\ pre.labels.isnil /\ Present(pre.annotations, KeyOf(1))
    /\ last.err = ErrValueMissing
    /\ rec[1] # pre.rec[1] /\ rec[3] = pre.rec[3]

\* C5: with a tagged field of a type outside the supported set, Marshal
\* returns ErrUnsupportedType, and so does Unmarshal when it reaches the
\* field and the field's key is present.
C5_UnsupportedType ==
    \A i \in 1..Len(F) :
        (Tagged(i) /\ F[i].type \notin SupportedTypes) =>
            /\ Did("Marshal") => last.err = ErrUnsupportedType
            /\ (Did("Unmarshal") /\ Reaches(i) /\ ~Missing(i))
                    => last.err = ErrUnsupportedType

\* C6: when the data argument is no pointer to a struct, Marshal and
\* Unmarshal return ErrNotStructPointer and leave the record and both maps
\* as they were, a nil map still nil.
C6_NotStructPointer ==
    (last.op \in {"Marshal", "Unmarshal"} /\ last.how # "ptr-struct")
        => /\ last.err = ErrNotStructPointer
           /\ rec = pre.rec
           /\ labels = pre.labels
           /\ annotations = pre.annotations

C6_Witness ==
    /\ last.op = "Marshal" /\ last.how = "struct"
    /\ last.err = ErrNotStructPointer
    /\ labels.isnil /\ annotations.isnil

\* C7: Unmarshal into a slice field whose element kind is outside the
\* supported element set returns ErrUnsupportedType.
C7_UnsupportedElement ==
    Did("Unmarshal") =>
        \A i \in 1..Len(F) :
            (/\ Tagged(i)
             /\ Kind(F[i].type) = "slice"
             /\ Elem(F[i].type) \notin SupportedElems
             /\ Reaches(i)
             /\ ~Missing(i))
                => last.err = ErrUnsupportedType

\* C8: when Unmarshal returns an error, it is the error of the first tagged
\* field that fails; the tagged fields before it hold their decoded values,
\* and that field and every field after it keep their values.
C8_FailFast ==
    (Did("Unmarshal") /\ last.err # NoError) =>
        \E i \in 1..Len(F) :
            /\ Reaches(i) /\ ~Succeeds(i)
            /\ last.err = IF Missing(i) THEN ErrValueMissing ELSE Decoded(i).err
            /\ \A j \in 1..(i - 1) :
                    rec[j] = IF Tagged(j) THEN Decoded(j).val ELSE pre.rec[j]
            /\ \A k \in i..Len(F) : rec[k] = pre.rec[k]

C8_Witness ==
    /\ Did("Unmarshal") /\ schema = "Mixed"
    /\ last.err = ErrConversion
    /\ rec[1] # pre.rec[1] /\ rec[3] = pre.rec[3]

C8_WitnessPartial ==
    /\ Did("Unmarshal") /\ schema = "Lists"
    /\ Present(pre.annotations, KeyOf(1)) /\ pre.annotations.m[KeyOf(1)] = BadText
    /\ last.err = ErrConversion
    /\ rec[1] = pre.rec[1] /\ rec[1] # SliceOf(<<>>)

\* 2^n, for the edges of the ranges the claim gives: 2^(w-1) and 2^w.
TwoTo(n) ==
    CASE n = 7 -> <<1, 2, 8>>
      [] n = 8 -> <<2, 5, 6>>
      [] n = 15 -> <<3, 2, 7, 6, 8>>
      [] n = 16 -> <<6, 5, 5, 3, 6>>
      [] n = 31 -> <<2, 1, 4, 7, 4, 8, 3, 6, 4, 8>>
      [] n = 32 -> <<4, 2, 9, 4, 9, 6, 7, 2, 9, 6>>
      [] n = 63 -> <<9, 2, 2, 3, 3, 7, 2, 0, 3, 6, 8, 5, 4, 7, 7, 5, 8, 0, 8>>
      [] n = 64 -> <<1, 8, 4, 4, 6, 7, 4, 4, 0, 7, 3, 7, 0, 9, 5, 5, 1, 6, 1, 6>>

\* The width the claim gives each integer type, int and uint as 32 bits.
Width(T) ==
    CASE T \in {"int8", "uint8"} -> 8
      [] T \in {"int16", "uint16"} -> 16
      [] T \in {"int", "int32", "uint", "uint32"} -> 32
      [] T \in {"int64", "uint64"} -> 64

\* A base-10 text: digits, after an optional sign; and its value.
IsDigits(s) == s # <<>> /\ \A i \in 1..Len(s) : IsDigit(s[i])
HasSign(s) == s # <<>> /\ s[1] \in {"+", "-"}
IsDecimal(s) == IF HasSign(s) THEN IsDigits(Tail(s)) ELSE IsDigits(s)
ValueOf(s) ==
    LET ds == IF HasSign(s) THEN Tail(s) ELSE s
        mag == StripZeros([i \in 1..Len(ds) |-> DigitVal(ds[i])])
    IN  IntVal(s[1] = "-" /\ mag # <<0>>, mag)

\* -2^(w-1) <= v <= 2^(w-1) - 1, and 0 <= v <= 2^w - 1
InSignedRange(v, w) ==
    IF v.neg THEN ~MagGt(v.mag, TwoTo(w - 1)) ELSE MagGt(TwoTo(w - 1), v.mag)
InUnsignedRange(v, w) == ~v.neg /\ MagGt(TwoTo(w), v.mag)

\* The text under the integer field's key, and the two outcomes.
IntText == pre.annotations.m["p/v"]
Accepted(v) == last.err = NoError /\ rec[1] = v
Rejected == last.err = ErrConversion /\ rec[1] = pre.rec[1]

\* C9 as claimed: Unmarshal into an integer field of width w accepts exactly
\* the base-10 texts whose value is in the type's range, [-2^(w-1), 2^(w-1)-1]
\* for a signed and [0, 2^w-1] for an unsigned field, and sets the field to
\* the value; any other text gives ErrConversion and leaves the field as it
\* was.
C9_ExactlyInRange ==
    (Did("Unmarshal") /\ last.prefix = "p" /\ schema \in IntTypes) =>
        IF /\ IsDecimal(IntText)
           /\ IF schema \in SignedTypes
              THEN InSignedRange(ValueOf(IntText), Width(schema))
              ELSE InUnsignedRange(ValueOf(IntText), Width(schema))
        THEN Accepted(ValueOf(IntText))
        ELSE Rejected

\* C9 as amended: as claimed for a signed field; an unsigned field accepts
\* exactly the texts of digits alone (no sign) whose value is in [0, 2^w-1].
C9_UnsignedTakesNoSign ==
    (Did("Unmarshal") /\ last.prefix = "p" /\ schema \in IntTypes) =>
        IF schema \in SignedTypes
        THEN IF IsDecimal(IntText) /\ InSignedRange(ValueOf(IntText), Width(schema))
             THEN Accepted(ValueOf(IntText))
             ELSE Rejected
        ELSE IF IsDigits(IntText) /\ InUnsignedRange(ValueOf(IntText), Width(schema))
             THEN Accepted(ValueOf(IntText))
             ELSE Rejected

C9_Witness ==
    /\ Did("Unmarshal") /\ last.prefix = "p" /\ schema = "int"
    /\ IntText = <<"-", "2", "1", "4", "7", "4", "8", "3", "6", "4", "8">>
    /\ last.err = NoError
    /\ rec[1] = IntVal(TRUE, <<2, 1, 4, 7, 4, 8, 3, 6, 4, 8>>)
    /\ pre.rec[1] = Num(<<7>>)

C9_WitnessRejected ==
    /\ Did("Unmarshal") /\ last.prefix = "p" /\ schema = "uint"
    /\ IntText = <<"4", "2", "9", "4", "9", "6", "7", "2", "9", "6">>
    /\ last.err = ErrConversion
    /\ rec[1] = Num(<<7>>)

\* C10: Unmarshal changes no entry of either map; Marshal changes only the
\* entries under prefix/tagName of a tagged field, in the map the field's
\* tag selects.
WrittenBy(annot, k) ==
    \E i \in 1..Len(F) : Tagged(i) /\ UsesAnnotations(i) = annot /\ k = KeyOf(i)

\* C10: Unmarshal leaves both dictionaries as they were; Marshal changes only
\* the entries its tagged fields write (selected dictionary, prefix/tagName),
\* every other entry of either dictionary is kept.
C10_Frame ==
    /\ last.op = "Unmarshal" => labels = pre.labels /\ annotations = pre.annotations
    /\ last.op = "Marshal" =>
        /\ \A k \in KeysOf(pre.labels) \cup KeysOf(labels) :
                ~WrittenBy(FALSE, k) => SameEntry(pre.labels, labels, k)
        /\ \A k \in KeysOf(pre.annotations) \cup KeysOf(annotations) :
                ~WrittenBy(TRUE, k) => SameEntry(pre.annotations, annotations, k)

C10_Witness ==
    /\ Did("Marshal") /\ last.err = NoError /\ schema = "Data" /\ last.prefix = "p"
    /\ Present(pre.labels, "p/id") /\ Present(labels, "p/id")
    /\ labels.m["p/id"] = BadText
    /\ annotations.m["p/id"] = <<"1">>
    /\ Present(labels, "p/age")

============================================================================
